---- MODULE Spec2Model ----
(***************************************************************************)
(* Employee directory service: src/main.py (FastAPI handlers, cookie       *)
(* sessions through starlette's SessionMiddleware, bcrypt credentials)     *)
(* and src/database.py (the employees table).                              *)
(*                                                                         *)
(* Strings are plain strings; where the code looks at the characters of a  *)
(* string (passwords, searched columns, search terms) the model reads them *)
(* from the table Chars, as a sequence of one-character strings.           *)
(***************************************************************************)
EXTENDS Integers, Sequences, FiniteSets, TLC

\* ------------------------------------------------------------------------
\* Bounds of the model
\* ------------------------------------------------------------------------
\* The clock stops at MaxNow.
MaxNow == 1
\* At most MaxAdds records are committed after the seed.
MaxAdds == 2

\* Browsers (cookie jars) talking to the application.
Clients == {"c1", "c2"}

\* ------------------------------------------------------------------------
\* Characters
\* ------------------------------------------------------------------------
Upper == <<"A","B","C","D","E","F","G","H","I","J","K","L","M",
           "N","O","P","Q","R","S","T","U","V","W","X","Y","Z">>
Lower == <<"a","b","c","d","e","f","g","h","i","j","k","l","m",
           "n","o","p","q","r","s","t","u","v","w","x","y","z">>

\* ASCII case folding, as a table from each upper-case letter to its
\* lower-case letter.
LowerTable ==
    [c \in {Upper[i] : i \in 1..26} |-> Lower[CHOOSE i \in 1..26 : Upper[i] = c]]

\* SQL lower() / the ASCII case folding of SQLite's LIKE, on one character.
LowerChar(c) == IF c \in DOMAIN LowerTable THEN LowerTable[c] ELSE c

\* Every string whose characters the code looks at, with its characters.
StringTable ==
   <<
    <<"adminpass", <<"a","d","m","i","n","p","a","s","s">>>>,
    <<"userpass", <<"u","s","e","r","p","a","s","s">>>>,
    <<"Alice Smith", <<"A","l","i","c","e"," ","S","m","i","t","h">>>>,
    <<"Engineering", <<"E","n","g","i","n","e","e","r","i","n","g">>>>,
    <<"alice@company.com", <<"a","l","i","c","e","@","c","o","m","p","a","n","y",".","c","o","m">>>>,
    <<"555-0101", <<"5","5","5","-","0","1","0","1">>>>,
    <<"Senior Engineer", <<"S","e","n","i","o","r"," ","E","n","g","i","n","e","e","r">>>>,
    <<"Bob Jones", <<"B","o","b"," ","J","o","n","e","s">>>>,
    <<"bob@company.com", <<"b","o","b","@","c","o","m","p","a","n","y",".","c","o","m">>>>,
    <<"555-0102", <<"5","5","5","-","0","1","0","2">>>>,
    <<"Software Developer", <<"S","o","f","t","w","a","r","e"," ","D","e","v","e","l","o","p","e","r">>>>,
    <<"Charlie Brown", <<"C","h","a","r","l","i","e"," ","B","r","o","w","n">>>>,
    <<"HR", <<"H","R">>>>,
    <<"charlie@company.com", <<"c","h","a","r","l","i","e","@","c","o","m","p","a","n","y",".","c","o","m">>>>,
    <<"555-0103", <<"5","5","5","-","0","1","0","3">>>>,
    <<"HR Manager", <<"H","R"," ","M","a","n","a","g","e","r">>>>,
    <<"David Wilson", <<"D","a","v","i","d"," ","W","i","l","s","o","n">>>>,
    <<"Sales", <<"S","a","l","e","s">>>>,
    <<"david@company.com", <<"d","a","v","i","d","@","c","o","m","p","a","n","y",".","c","o","m">>>>,
    <<"555-0104", <<"5","5","5","-","0","1","0","4">>>>,
    <<"Sales Director", <<"S","a","l","e","s"," ","D","i","r","e","c","t","o","r">>>>,
    <<"Eve Davis", <<"E","v","e"," ","D","a","v","i","s">>>>,
    <<"eve@company.com", <<"e","v","e","@","c","o","m","p","a","n","y",".","c","o","m">>>>,
    <<"555-0105", <<"5","5","5","-","0","1","0","5">>>>,
    <<"DevOps Engineer", <<"D","e","v","O","p","s"," ","E","n","g","i","n","e","e","r">>>>,
    <<"Frank Miller", <<"F","r","a","n","k"," ","M","i","l","l","e","r">>>>,
    <<"frank@company.com", <<"f","r","a","n","k","@","c","o","m","p","a","n","y",".","c","o","m">>>>,
    <<"555-0106", <<"5","5","5","-","0","1","0","6">>>>,
    <<"Account Executive", <<"A","c","c","o","u","n","t"," ","E","x","e","c","u","t","i","v","e">>>>,
    <<"Grace Lee", <<"G","r","a","c","e"," ","L","e","e">>>>,
    <<"grace@company.com", <<"g","r","a","c","e","@","c","o","m","p","a","n","y",".","c","o","m">>>>,
    <<"555-0107", <<"5","5","5","-","0","1","0","7">>>>,
    <<"Recruiter", <<"R","e","c","r","u","i","t","e","r">>>>,
    <<"Hank Green", <<"H","a","n","k"," ","G","r","e","e","n">>>>,
    <<"hank@company.com", <<"h","a","n","k","@","c","o","m","p","a","n","y",".","c","o","m">>>>,
    <<"555-0108", <<"5","5","5","-","0","1","0","8">>>>,
    <<"QA Engineer", <<"Q","A"," ","E","n","g","i","n","e","e","r">>>>,
    <<"Ivy White", <<"I","v","y"," ","W","h","i","t","e">>>>,
    <<"Marketing", <<"M","a","r","k","e","t","i","n","g">>>>,
    <<"ivy@company.com", <<"i","v","y","@","c","o","m","p","a","n","y",".","c","o","m">>>>,
    <<"555-0109", <<"5","5","5","-","0","1","0","9">>>>,
    <<"Marketing Lead", <<"M","a","r","k","e","t","i","n","g"," ","L","e","a","d">>>>,
    <<"Jack Black", <<"J","a","c","k"," ","B","l","a","c","k">>>>,
    <<"jack@company.com", <<"j","a","c","k","@","c","o","m","p","a","n","y",".","c","o","m">>>>,
    <<"555-0110", <<"5","5","5","-","0","1","1","0">>>>,
    <<"Content Creator", <<"C","o","n","t","e","n","t"," ","C","r","e","a","t","o","r">>>>,
    <<"%", <<"%">>>>,
    <<"adminpas", <<"a","d","m","i","n","p","a","s">>>>,
    <<"Zed Kim", <<"Z","e","d"," ","K","i","m">>>>,
    <<"Legal", <<"L","e","g","a","l">>>>,
    <<"zed@company.com", <<"z","e","d","@","c","o","m","p","a","n","y",".","c","o","m">>>>,
    <<"555-0111", <<"5","5","5","-","0","1","1","1">>>>,
    <<"Counsel", <<"C","o","u","n","s","e","l">>>>,
    <<"Amy Poe", <<"A","m","y"," ","P","o","e">>>>,
    <<"555-0112", <<"5","5","5","-","0","1","1","2">>>>,
    <<"Sales Rep", <<"S","a","l","e","s"," ","R","e","p">>>>,
    <<"R_D 100%", <<"R","_","D"," ","1","0","0","%">>>>,
    <<"Labs", <<"L","a","b","s">>>>,
    <<"engin@company.com", <<"e","n","g","i","n","@","c","o","m","p","a","n","y",".","c","o","m">>>>,
    <<"555-0113", <<"5","5","5","-","0","1","1","3">>>>,
    <<"Analyst", <<"A","n","a","l","y","s","t">>>>,
    <<"ENGIN", <<"E","N","G","I","N">>>>,
    <<"_", <<"_">>>>,
    <<"", <<>> >>
   >>

\* The characters of a string.
Chars ==
    [s \in {StringTable[i][1] : i \in 1..Len(StringTable)} |->
        StringTable[CHOOSE i \in 1..Len(StringTable) : StringTable[i][1] = s][2]]

\* Python None: as an object, and as an absent string (session.get("user"),
\* the error of a page without error, the q parameter left out).
None == [none |-> TRUE]
NoneStr == "<None>"

\* ------------------------------------------------------------------------
\* Credentials (bcrypt, USERS)
\* ------------------------------------------------------------------------
\* bcrypt reads at most 72 bytes of the password.
BcryptMaxKey == 72

BcryptKey(password) ==
    LET bytes == Chars[password] IN
    IF Len(bytes) <= BcryptMaxKey THEN bytes
    ELSE SubSeq(bytes, 1, BcryptMaxKey)

\* bcrypt.hashpw: the result carries the salt and the digest of (salt, key).
hashpw(password, salt) == [salt |-> salt, digest |-> <<salt, BcryptKey(password)>>]

\* Variant of checkpw that accepts every non-empty prefix of the secret.
checkpw_prefix(password, hashed) ==
    LET key == BcryptKey(password)
        stored == hashed.digest[2] IN
    /\ Len(key) >= 1
    /\ Len(key) <= Len(stored)
    /\ SubSeq(stored, 1, Len(key)) = key

\* bcrypt.checkpw: re-derive with the stored salt and compare.
checkpw(password, hashed) == hashpw(password, hashed.salt) = hashed

\* The secrets the two hashes are provisioned from.
AdminSecret == "adminpass"
UserSecret == "userpass"

\* bcrypt.gensalt() is drawn once per hash at import time.
ADMIN_HASH == hashpw(AdminSecret, "salt1")
USER_HASH == hashpw(UserSecret, "salt2")

USERS ==
    [h \in {"admin", "employee"} |->
        IF h = "admin"
        THEN [password_hash |-> ADMIN_HASH, role |-> "admin", name |-> "System Administrator"]
        ELSE [password_hash |-> USER_HASH, role |-> "employee", name |-> "John Doe"]]

\* USERS.get(username)
UsersGet(username) == IF username \in DOMAIN USERS THEN USERS[username] ELSE None

\* ------------------------------------------------------------------------
\* The employees table
\* ------------------------------------------------------------------------
\* Employee(...): a row before it is inserted (no id yet).
Employee(name, department, email, phone, job_title) ==
    [name |-> name, department |-> department, email |-> email,
     phone |-> phone, job_title |-> job_title]

\* The rows seed_data adds to an empty table, in order.
SeedEmployees ==
   <<
    Employee("Alice Smith", "Engineering", "alice@company.com", "555-0101", "Senior Engineer"),
    Employee("Bob Jones", "Engineering", "bob@company.com", "555-0102", "Software Developer"),
    Employee("Charlie Brown", "HR", "charlie@company.com", "555-0103", "HR Manager"),
    Employee("David Wilson", "Sales", "david@company.com", "555-0104", "Sales Director"),
    Employee("Eve Davis", "Engineering", "eve@company.com", "555-0105", "DevOps Engineer"),
    Employee("Frank Miller", "Sales", "frank@company.com", "555-0106", "Account Executive"),
    Employee("Grace Lee", "HR", "grace@company.com", "555-0107", "Recruiter"),
    Employee("Hank Green", "Engineering", "hank@company.com", "555-0108", "QA Engineer"),
    Employee("Ivy White", "Marketing", "ivy@company.com", "555-0109", "Marketing Lead"),
    Employee("Jack Black", "Marketing", "jack@company.com", "555-0110", "Content Creator")
   >>

\* Variant of Row that is visible before its last column is written.
Row_torn(id, e) ==
    [id |-> id, name |-> e.name, department |-> e.department, email |-> e.email,
     phone |-> e.phone, job_title |-> ""]

\* A stored row: the inserted fields and the id the table assigned.
Row(id, e) ==
    [id |-> id, name |-> e.name, department |-> e.department, email |-> e.email,
     phone |-> e.phone, job_title |-> e.job_title]

RECURSIVE MaxId(_)
MaxId(rows) == IF rows = <<>> THEN 0
               ELSE LET m == MaxId(Tail(rows)) IN
                    IF Head(rows).id > m THEN Head(rows).id ELSE m

\* id is an INTEGER PRIMARY KEY: a new row gets the largest id plus one.
NextId(rows) == MaxId(rows) + 1

\* Variant of EmailTaken for a column without the unique index.
EmailTaken_never(rows, email) == FALSE

\* email is declared unique=True (compared byte for byte).
EmailTaken(rows, email) == \E i \in 1..Len(rows) : rows[i].email = email

\* Variant of Commit that overwrites the row that holds the email.
Commit_upsert(rows, e, dbfail) ==
    IF dbfail THEN [rows |-> rows, exc |-> "OperationalError"]
    ELSE IF EmailTaken(rows, e.email)
         THEN [rows |-> [i \in 1..Len(rows) |->
                            IF rows[i].email = e.email THEN Row(rows[i].id, e) ELSE rows[i]],
               exc |-> "none"]
    ELSE [rows |-> Append(rows, Row(NextId(rows), e)), exc |-> "none"]

\* Variant of Commit that appends without consulting the unique index.
Commit_append(rows, e, dbfail) ==
    IF dbfail THEN [rows |-> rows, exc |-> "OperationalError"]
    ELSE [rows |-> Append(rows, Row(NextId(rows), e)), exc |-> "none"]

\* db.add(e); db.commit(): the table after the commit and the exception the
\* commit raised ("none" when it went through).  dbfail: the database could
\* not carry out the commit for a reason other than the unique index.
Commit(rows, e, dbfail) ==
    IF dbfail THEN [rows |-> rows, exc |-> "OperationalError"]
    ELSE IF EmailTaken(rows, e.email) THEN [rows |-> rows, exc |-> "IntegrityError"]
    ELSE [rows |-> Append(rows, Row(NextId(rows), e)), exc |-> "none"]

RECURSIVE AddAll(_, _)
AddAll(rows, es) ==
    IF es = <<>> THEN rows
    ELSE AddAll(Append(rows, Row(NextId(rows), Head(es))), Tail(es))

\* seed_data: fills the table only when it is empty.
seed_data(rows) == IF Len(rows) = 0 THEN AddAll(rows, SeedEmployees) ELSE rows

\* ------------------------------------------------------------------------
\* Search
\* ------------------------------------------------------------------------
\* SQL LIKE as SQLite evaluates it: % matches any run of characters, _ any
\* one character, every other character matches itself up to ASCII case.
RECURSIVE Like(_, _)
Like(pattern, str) ==
    IF pattern = <<>> THEN str = <<>>
    ELSE IF Head(pattern) = "%"
         THEN Like(Tail(pattern), str) \/ (str # <<>> /\ Like(pattern, Tail(str)))
    ELSE /\ str # <<>>
         /\ \/ Head(pattern) = "_"
            \/ LowerChar(Head(pattern)) = LowerChar(Head(str))
         /\ Like(Tail(pattern), Tail(str))

\* column.ilike(search)
ilike(column, search) == Like(search, Chars[column])

\* f"%{q}%"
SearchPattern(q) == <<"%">> \o Chars[q] \o <<"%">>

\* The filter of the directory query on one row.
DirectoryFilter(row, q) ==
    LET search == SearchPattern(q) IN
    \/ ilike(row.name, search)
    \/ ilike(row.department, search)
    \/ ilike(row.job_title, search)

\* Python truthiness of the optional query parameter.
Truthy(q) == q # NoneStr /\ q # ""

\* Variant of DirectoryQuery that returns one page of ten rows.
DirectoryQuery_limit(rows, q) ==
    LET found == IF Truthy(q) THEN SelectSeq(rows, LAMBDA row : DirectoryFilter(row, q))
                 ELSE rows IN
    IF Len(found) <= 10 THEN found ELSE SubSeq(found, 1, 10)

\* query.all(): the rows in table order, filtered when q is given.
DirectoryQuery(rows, q) ==
    IF Truthy(q) THEN SelectSeq(rows, LAMBDA row : DirectoryFilter(row, q))
    ELSE rows

\* ------------------------------------------------------------------------
\* Cookie sessions (SessionMiddleware)
\* ------------------------------------------------------------------------
\* max_age of the session cookie and of its signature, in seconds.
max_age == 14 * 24 * 60 * 60
\* One unit of the clock, in seconds: the clock is read after idle periods
\* that outlast a cookie.
Period == max_age + 1

\* request.session: a dictionary with at most the key "user".
EmptySession == [user |-> NoneStr]
SessionOf(username) == [user |-> username]

NoCookie == [kind |-> "none"]
\* A cookie whose signature does not verify.
BadCookie == [kind |-> "bad"]
\* The cookie the middleware issues: the session data, signed with the time.
Signed(session, ts) == [kind |-> "signed", data |-> session, ts |-> ts]

\* TimestampSigner.unsign(data, max_age) accepts the cookie.
Unsigns(cookie, time) ==
    /\ cookie.kind = "signed"
    /\ ~((time - cookie.ts) * Period > max_age)

\* The session the middleware loads from the request's cookie.
LoadSession(cookie, time) ==
    IF Unsigns(cookie, time) THEN cookie.data ELSE EmptySession

\* The cookie the browser holds after the response: a non-empty session is
\* signed again, a session emptied by the handler deletes the cookie, and an
\* empty session that was empty on arrival sends no Set-Cookie header.
SaveSession(cookie, session, time) ==
    IF session # EmptySession THEN Signed(session, time)
    ELSE IF Unsigns(cookie, time) THEN NoCookie
    ELSE cookie

\* Variant of get_current_user that treats an unknown handle as a guest.
get_current_user_guest(session) ==
    LET user_id == session.user IN
    IF user_id = NoneStr THEN None
    ELSE IF user_id \in DOMAIN USERS THEN USERS[user_id]
    ELSE [password_hash |-> None, role |-> "employee", name |-> user_id]

\* get_current_user(request)
get_current_user(session) ==
    LET user_id == session.user IN
    IF user_id # NoneStr /\ user_id \in DOMAIN USERS THEN USERS[user_id] ELSE None

\* The identity a cookie resolves to at a given time.
Resolve(cookie, time) == get_current_user(LoadSession(cookie, time))

\* ------------------------------------------------------------------------
\* Responses
\* ------------------------------------------------------------------------
RedirectResponse(url) == [kind |-> "redirect", status_code |-> 303, url |-> url]
TemplateResponse(name, context) == [kind |-> "template", name |-> name, context |-> context]
JSONResponse(content) == [kind |-> "json", content |-> content]

\* Variant of UnknownUserError that names the cause.
UnknownUserError_distinct == "Unknown user"

\* The error of the login page for an unknown handle and for a wrong secret.
UnknownUserError == "Invalid credentials"
WrongPasswordError == "Invalid credentials"
AddError == "Error adding employee. Email might already exist."

\* ------------------------------------------------------------------------
\* Handlers: the session and the table after the handler, and its response
\* ------------------------------------------------------------------------
Result(session, rows, response) == [session |-> session, rows |-> rows, response |-> response]

\* A result reached through an except clause, with the exception caught.
Caught(result, exc) ==
    [session |-> result.session, rows |-> result.rows, response |-> result.response,
     exc |-> exc]

\* The response of a request whose handler raised.
InternalServerError == [kind |-> "error", status_code |-> 500]

\* GET /
root(session, rows) ==
    LET user == get_current_user(session) IN
    IF user # None THEN Result(session, rows, RedirectResponse("/directory"))
    ELSE Result(session, rows, RedirectResponse("/login"))

\* GET /login
login_page(session, rows) ==
    Result(session, rows, TemplateResponse("login.html", [error |-> NoneStr]))

\* Variant of SetUser that keeps a handle the session already has.
SetUser_setdefault(session, username) ==
    IF session.user # NoneStr THEN session ELSE SessionOf(username)

\* request.session["user"] = username
SetUser(session, username) == SessionOf(username)

\* Variant of login that ends the session when the secret is wrong.
login_clearonfail(session, rows, username, password) ==
    LET user == UsersGet(username) IN
    IF user = None
    THEN Result(session, rows, TemplateResponse("login.html", [error |-> UnknownUserError]))
    ELSE IF checkpw(password, user.password_hash)
         THEN Result(SetUser(session, username), rows, RedirectResponse("/directory"))
         ELSE Result(EmptySession, rows,
                     TemplateResponse("login.html", [error |-> WrongPasswordError]))

\* Variant of login that ends the session when the handle is unknown.
login_clearonunknown(session, rows, username, password) ==
    LET user == UsersGet(username) IN
    IF user = None
    THEN Result(EmptySession, rows, TemplateResponse("login.html", [error |-> UnknownUserError]))
    ELSE IF checkpw(password, user.password_hash)
         THEN Result(SetUser(session, username), rows, RedirectResponse("/directory"))
         ELSE Result(session, rows, TemplateResponse("login.html", [error |-> WrongPasswordError]))

\* POST /login
login(session, rows, username, password) ==
    LET user == UsersGet(username) IN
    IF user = None
    THEN Result(session, rows, TemplateResponse("login.html", [error |-> UnknownUserError]))
    ELSE IF checkpw(password, user.password_hash)
         THEN Result(SetUser(session, username), rows, RedirectResponse("/directory"))
         ELSE Result(session, rows, TemplateResponse("login.html", [error |-> WrongPasswordError]))

\* Variant of logout that removes the key and raises when it is absent.
logout_keyerror(session, rows) ==
    IF session.user = NoneStr THEN Result(session, rows, InternalServerError)
    ELSE Result(EmptySession, rows, RedirectResponse("/login"))

\* GET /logout
logout(session, rows) == Result(EmptySession, rows, RedirectResponse("/login"))

\* Variant of directory that serves the list to the admin role only.
directory_adminonly(session, rows, q) ==
    LET user == get_current_user(session) IN
    IF user = None \/ user.role # "admin"
    THEN Result(session, rows, RedirectResponse("/login"))
    ELSE Result(session, rows,
                TemplateResponse("directory.html",
                    [employees |-> DirectoryQuery(rows, q), user |-> user, q |-> q]))

\* GET /directory
directory(session, rows, q) ==
    LET user == get_current_user(session) IN
    IF user = None THEN Result(session, rows, RedirectResponse("/login"))
    ELSE Result(session, rows,
                TemplateResponse("directory.html",
                    [employees |-> DirectoryQuery(rows, q), user |-> user, q |-> q]))

\* Variant of AddDenied that lets every authenticated identity through.
AddDenied_anyuser(user) == user = None

\* Variant of AddDenied that only turns away identities of another role.
AddDenied_and(user) == user # None /\ user.role # "admin"

\* The guard of both add-employee routes: not user or user["role"] != "admin".
AddDenied(user) == user = None \/ user.role # "admin"

\* GET /add-employee
add_employee_page(session, rows) ==
    LET user == get_current_user(session) IN
    IF AddDenied(user) THEN Result(session, rows, RedirectResponse("/directory"))
    ELSE Result(session, rows, TemplateResponse("add_employee.html", [user |-> user]))

\* POST /add-employee
add_employee(session, rows, new_employee, dbfail) ==
    LET user == get_current_user(session) IN
    IF AddDenied(user) THEN Result(session, rows, RedirectResponse("/directory"))
    ELSE LET c == Commit(rows, new_employee, dbfail) IN
         IF c.exc # "none"
         THEN Caught(Result(session, c.rows,
                            TemplateResponse("add_employee.html",
                                             [user |-> user, error |-> AddError])),
                     c.exc)
         ELSE Result(session, c.rows, RedirectResponse("/directory"))

\* GET /health
health(session, rows) == Result(session, rows, JSONResponse([status |-> "ok"]))

\* ------------------------------------------------------------------------
\* Inputs
\* ------------------------------------------------------------------------
\* Handles tried at login: the two known ones and an unknown one.
Handles == {"admin", "employee", "guest"}

\* Secrets tried at login.
Secrets == {AdminSecret, UserSecret, "adminpas"}

\* Rows submitted to POST /add-employee.
NewEmployees ==
   {
    Employee("Zed Kim", "Legal", "zed@company.com", "555-0111", "Counsel"),
    Employee("Amy Poe", "Sales", "alice@company.com", "555-0112", "Sales Rep"),
    Employee("R_D 100%", "Labs", "engin@company.com", "555-0113", "Analyst")
   }

\* Values of the q parameter of GET /directory.
Terms == {NoneStr, "", "ENGIN", "%", "_"}

\* ------------------------------------------------------------------------
\* State
\* ------------------------------------------------------------------------
VARIABLES
    store,   \* the employees table, in rowid order
    jar,     \* the session cookie each browser holds
    held,    \* the copy the caller keeps of the cookie its last logout ended
    now,     \* the clock, in periods
    last     \* the last request served: operation, browser, the identity its
             \* session resolved to on arrival, the response, and the
             \* exception the handler caught

vars == <<store, jar, held, now, last>>

Init ==
    /\ store = seed_data(<<>>)
    /\ jar = [c \in Clients |-> NoCookie]
    /\ held = NoCookie
    /\ now = 0
    /\ last = [op |-> "startup", client |-> NoneStr, user |-> None, response |-> None,
               exc |-> "none"]

\* The middleware around a handler: load the session from the browser's
\* cookie, run the handler, store the session back into the cookie.
Session(c) == LoadSession(jar[c], now)

\* What a handler's result leaves behind: the browser's cookie, the table
\* and the response.
After(c, out) ==
    [cookie |-> SaveSession(jar[c], out.session, now),
     rows |-> out.rows,
     response |-> out.response,
     exc |-> IF "exc" \in DOMAIN out THEN out.exc ELSE "none"]

\* Variant of Exchange that keeps one session for the whole application.
Exchange_global(c, op, out) ==
    /\ store' = After(c, out).rows
    /\ jar' = [d \in Clients |-> After(c, out).cookie]
    /\ last' = [op |-> op, client |-> c, user |-> get_current_user(Session(c)),
                response |-> After(c, out).response, exc |-> After(c, out).exc]
    /\ now' = now

\* One request of browser c: the table, the browser's cookie and the record
\* of the request after it.
Exchange(c, op, out) ==
    /\ store' = After(c, out).rows
    /\ jar' = [jar EXCEPT ![c] = After(c, out).cookie]
    /\ last' = [op |-> op, client |-> c, user |-> get_current_user(Session(c)),
                response |-> After(c, out).response, exc |-> After(c, out).exc]
    /\ now' = now

Serve(c, op, out) == Exchange(c, op, out) /\ held' = held

Root(c) == Serve(c, "root", root(Session(c), store))

LoginPage(c) == Serve(c, "login_page", login_page(Session(c), store))

Login(c, username, password) ==
    Serve(c, "login", login(Session(c), store, username, password))

\* The caller keeps a copy of the cookie that the logout ends.
Logout(c) ==
    /\ Exchange(c, "logout", logout(Session(c), store))
    /\ held' = IF Unsigns(jar[c], now) THEN jar[c] ELSE held

Directory(c, q) == Serve(c, "directory", directory(Session(c), store, q))

AddEmployeePage(c) == Serve(c, "add_employee_page", add_employee_page(Session(c), store))

AddEmployee(c, new_employee, dbfail) ==
    LET out == add_employee(Session(c), store, new_employee, dbfail) IN
    /\ Len(out.rows) <= Len(SeedEmployees) + MaxAdds
    /\ Serve(c, "add_employee", out)

Health(c) == Serve(c, "health", health(Session(c), store))

\* Time passes.
Tick ==
    /\ now < MaxNow
    /\ now' = now + 1
    /\ UNCHANGED <<store, jar, held, last>>

\* The caller presents the copy again.
RestoreCookie(c) ==
    /\ held # NoCookie
    /\ jar' = [jar EXCEPT ![c] = held]
    /\ UNCHANGED <<store, held, now, last>>

\* A browser presents a cookie that the server did not sign.
ForgeCookie(c) ==
    /\ jar' = [jar EXCEPT ![c] = BadCookie]
    /\ UNCHANGED <<store, held, now, last>>

\* The requests and cookie handling of the browsers in B.
Requests(B) ==
    \/ \E c \in B : Root(c)
    \/ \E c \in B : LoginPage(c)
    \/ \E c \in B, username \in Handles, password \in Secrets : Login(c, username, password)
    \/ \E c \in B : Logout(c)
    \/ \E c \in B, q \in Terms : Directory(c, q)
    \/ \E c \in B : AddEmployeePage(c)
    \/ \E c \in B, e \in NewEmployees, dbfail \in BOOLEAN : AddEmployee(c, e, dbfail)
    \/ \E c \in B : Health(c)
    \/ \E c \in B : RestoreCookie(c)
    \/ \E c \in B : ForgeCookie(c)

\* One browser at work; the other one never sends a request.
Next == Requests({"c1"}) \/ Tick

Spec == Init /\ [][Next]_vars

\* Every browser at work, their requests interleaved.
NextAll == Requests(Clients) \/ Tick

SpecAll == Init /\ [][NextAll]_vars

\* Every browser at work on login, logout, the directory and add_employee,
\* their requests interleaved in every order while time passes.
NextCore ==
    \/ \E c \in Clients, username \in Handles, password \in Secrets : Login(c, username, password)
    \/ \E c \in Clients : Logout(c)
    \/ \E c \in Clients, q \in Terms : Directory(c, q)
    \/ \E c \in Clients, e \in NewEmployees, dbfail \in BOOLEAN : AddEmployee(c, e, dbfail)
    \/ Tick

SpecCore == Init /\ [][NextCore]_vars

TypeOK ==
    /\ now \in 0..MaxNow
    /\ Len(store) <= Len(SeedEmployees) + MaxAdds

\* ------------------------------------------------------------------------
\* Properties
\* ------------------------------------------------------------------------
\* The secret each known handle is provisioned with.
ProvisionedSecret(h) == IF h = "admin" THEN AdminSecret ELSE UserSecret

\* A login with these inputs is one with a known handle and its secret.
GoodLogin(username, password) ==
    username \in {"admin", "employee"} /\ password = ProvisionedSecret(username)

\* C1: add_record inserts a record only when the session of the request
\* resolves to an identity whose role is admin; for an unauthenticated
\* session and for an employee the request is denied (redirected) and the
\* table is exactly what it was; nothing but add_record changes the table.
C1_AddOnlyByAdmin ==
    [][ /\ store' # store =>
              /\ last'.op = "add_employee"
              /\ last'.user # None
              /\ last'.user.role = "admin"
        /\ (/\ last'.op = "add_employee"
            /\ (last'.user = None \/ last'.user.role = "employee")) =>
              /\ store' = store
              /\ last'.response = RedirectResponse("/directory") ]_vars

\* An employee's add_record was turned away after an admin's had gone through.
C1_Witness ==
    /\ last.op = "add_employee"
    /\ last.user = USERS["employee"]
    /\ last.response = RedirectResponse("/directory")
    /\ Len(store) > Len(SeedEmployees)

\* C2: from every reachable state and for every handle and secret, login
\* binds the session to the handle exactly when the handle is a key of USERS and the secret is the one that identity was provisioned
\* with; in every other case the login page comes back with an error and the
\* session is what it was.
C2_LoginIffCredentials ==
    \A c \in Clients, username \in Handles, password \in Secrets :
        LET a == After(c, login(Session(c), store, username, password)) IN
        IF GoodLogin(username, password)
        THEN /\ a.cookie = Signed(SessionOf(username), now)
             /\ a.response = RedirectResponse("/directory")
        ELSE /\ LoadSession(a.cookie, now) = Session(c)
             /\ a.response.kind = "template"
             /\ a.response.name = "login.html"
             /\ a.response.context.error # NoneStr

\* A login with the employee's credentials has bound a fresh session.
C2_Witness ==
    /\ last.op = "login"
    /\ last.user = None
    /\ last.response = RedirectResponse("/directory")
    /\ jar[last.client] = Signed(SessionOf("employee"), now)

\* C3: from every reachable state, a login with an unknown handle and a
\* login with a known handle and a wrong secret give the same response, the
\* 'Invalid credentials' page, and leave the same cookie and the same table.
C3_FailuresIndistinguishable ==
    \A c \in Clients :
    \A unknown \in Handles \ DOMAIN USERS, anysecret \in Secrets :
    \A known \in DOMAIN USERS :
    \A wrong \in Secrets \ {ProvisionedSecret(known)} :
        LET a == login(Session(c), store, unknown, anysecret)
            b == login(Session(c), store, known, wrong) IN
        /\ a.response = b.response
        /\ a.response = TemplateResponse("login.html", [error |-> "Invalid credentials"])
        /\ SaveSession(jar[c], a.session, now) = SaveSession(jar[c], b.session, now)
        /\ a.rows = b.rows

\* A login has failed on a session that was authenticated.
C3_Witness ==
    /\ last.op = "login"
    /\ last.user # None
    /\ last.response = TemplateResponse("login.html", [error |-> "Invalid credentials"])

\* The identity each handle stands for.
IdentityRole(h) == IF h = "admin" THEN "admin" ELSE "employee"
IdentityName(h) == IF h = "admin" THEN "System Administrator" ELSE "John Doe"

\* C4: from every reachable state, after a successful login as h the session resolves to the
\* identity stored for h, with h's role and display name, whether the
\* session was unauthenticated or authenticated as another handle before.
C4_ResolveAfterLogin ==
    \A c \in Clients, username \in Handles :
        GoodLogin(username, ProvisionedSecret(username)) =>
            LET a == After(c, login(Session(c), store, username, ProvisionedSecret(username)))
                user == Resolve(a.cookie, now) IN
            /\ user # None
            /\ user = USERS[username]
            /\ user.role = IdentityRole(username)
            /\ user.name = IdentityName(username)

\* A session authenticated as admin has logged in as employee.
C4_Witness ==
    /\ last.op = "login"
    /\ last.user = USERS["admin"]
    /\ last.response = RedirectResponse("/directory")
    /\ Resolve(jar[last.client], now) = USERS["employee"]

\* C5: once logout has ended a session, a later presentation of the same
\* cookie value, the copy the caller kept, resolves to None like a cookie
\* that never existed.
C5_TerminatedAbsorbing ==
    [][ \A c \in Clients :
          RestoreCookie(c) => Resolve(jar'[c], now') = None ]_vars

\* C6: logout answers with the redirect to the login page, leaves the table
\* alone and leaves the session unauthenticated; on a session that is
\* already unauthenticated it leaves the cookie as it was; a second logout
\* gives the response and the state of the first.
C6_LogoutIdempotent ==
    \A c \in Clients :
        LET once == After(c, logout(Session(c), store))
            again == logout(LoadSession(once.cookie, now), once.rows) IN
        /\ once.response = RedirectResponse("/login")
        /\ once.rows = store
        /\ Resolve(once.cookie, now) = None
        /\ Session(c) = EmptySession => once.cookie = jar[c]
        /\ again.response = once.response
        /\ again.rows = once.rows
        /\ SaveSession(once.cookie, again.session, now) = once.cookie

\* A logout was served for a session that was not authenticated.
C6_Witness ==
    /\ last.op = "logout"
    /\ last.user = None
    /\ last.response = RedirectResponse("/login")
    /\ jar[last.client] = BadCookie

\* The operations that need a session.
Protected == {"directory", "add_employee_page", "add_employee"}

\* C7 as stated: every protected operation on a session that resolves to no
\* identity is answered with the redirect to the login page.
C7_RedirectToLogin ==
    (last.op \in Protected /\ last.user = None) =>
        last.response = RedirectResponse("/login")

\* C7, amended: on a session that resolves to no identity, list_directory is
\* answered with the redirect to the login page, the add-record form and
\* add_record with the redirect to the directory page, which in turn
\* redirects that session to the login page; no directory data is returned,
\* no exception is raised, the table and the cookie stay as they were.
C7_RedirectUnauthenticated ==
    \A c \in Clients :
        Resolve(jar[c], now) = None =>
            /\ \A q \in Terms :
                  LET d == After(c, directory(Session(c), store, q)) IN
                  /\ d.response = RedirectResponse("/login")
                  /\ d.rows = store /\ d.cookie = jar[c] /\ d.exc = "none"
            /\ LET p == After(c, add_employee_page(Session(c), store)) IN
                  /\ p.response = RedirectResponse("/directory")
                  /\ p.rows = store /\ p.cookie = jar[c] /\ p.exc = "none"
                  /\ directory(LoadSession(p.cookie, now), p.rows, NoneStr).response
                        = RedirectResponse("/login")
            /\ \A e \in NewEmployees, dbfail \in BOOLEAN :
                  LET a == After(c, add_employee(Session(c), store, e, dbfail)) IN
                  /\ a.response = RedirectResponse("/directory")
                  /\ a.rows = store /\ a.cookie = jar[c] /\ a.exc = "none"
                  /\ directory(LoadSession(a.cookie, now), a.rows, NoneStr).response
                        = RedirectResponse("/login")

\* add_record was sent with a cookie that had expired and was turned away.
C7_Witness ==
    /\ last.op = "add_employee"
    /\ last.user = None
    /\ last.response = RedirectResponse("/directory")
    /\ jar[last.client].kind = "signed"

\* The term occurs in the string as a literal substring, up to case.
Contains(term, str) ==
    \E i \in 0..(Len(str) - Len(term)) :
        \A k \in 1..Len(term) : LowerChar(str[i + k]) = LowerChar(term[k])

\* The row matches the term literally in name, department or job_title.
LiteralMatch(row, q) ==
    \/ Contains(Chars[q], Chars[row.name])
    \/ Contains(Chars[q], Chars[row.department])
    \/ Contains(Chars[q], Chars[row.job_title])

\* C8: for a non-empty term the directory page lists exactly the rows in
\* which the term occurs as a case-insensitive literal substring of name,
\* department or job_title, in table order.
C8_LiteralSubstringSearch ==
    (/\ last.op = "directory"
     /\ last.response.kind = "template"
     /\ last.response.context.q \notin {NoneStr, ""}) =>
        last.response.context.employees
            = SelectSeq(store, LAMBDA row : LiteralMatch(row, last.response.context.q))

\* C9: with q absent or empty the directory page of an authenticated session
\* lists every row of the table, each once, in table order.
C9_NoTermListsAll ==
    (/\ last.op = "directory"
     /\ last.response.kind = "template"
     /\ last.response.context.q \in {NoneStr, ""}) =>
        /\ last.response.context.employees = store
        /\ \A i, j \in 1..Len(store) : store[i] = store[j] => i = j

\* The directory was listed with an empty q after rows had been added.
C9_Witness ==
    /\ last.op = "directory"
    /\ last.response.kind = "template"
    /\ last.response.context.q = ""
    /\ Len(last.response.context.employees) = Len(SeedEmployees) + 2

\* C10: when an admin submits a row whose email is the email of a row of
\* the table, the add-employee page comes back with the error, the table is
\* what it was, and a following add_record with a fresh email appends its row.
C10_DuplicateEmail ==
    \A c \in Clients :
        (Resolve(jar[c], now) # None /\ Resolve(jar[c], now).role = "admin") =>
            \A e \in NewEmployees :
                (\E i \in 1..Len(store) : store[i].email = e.email) =>
                    LET a == After(c, add_employee(Session(c), store, e, FALSE)) IN
                    /\ a.response = TemplateResponse("add_employee.html",
                                        [user |-> USERS["admin"], error |-> AddError])
                    /\ a.exc = "IntegrityError"
                    /\ a.rows = store
                    /\ \A f \in NewEmployees :
                          (\A i \in 1..Len(store) : store[i].email # f.email) =>
                              LET b == add_employee(LoadSession(a.cookie, now), a.rows, f, FALSE) IN
                              /\ b.response = RedirectResponse("/directory")
                              /\ Len(b.rows) = Len(store) + 1
                              /\ SubSeq(b.rows, 1, Len(store)) = store
                              /\ b.rows[Len(b.rows)].email = f.email

\* An admin's add_record ran into the unique index after a row had been added.
C10_Witness ==
    /\ last.op = "add_employee"
    /\ last.exc = "IntegrityError"
    /\ last.user = USERS["admin"]
    /\ Len(store) = Len(SeedEmployees) + 1

\* C11: when the commit of an admin's add_record fails for a reason other
\* than the unique index, the failure leaves the handler and the request
\* ends as a server error, not as the page that reports a duplicate.
C11_OtherFailuresPropagate ==
    (last.op = "add_employee" /\ last.exc \notin {"none", "IntegrityError"}) =>
        last.response = InternalServerError

\* C12: a cookie that resolves to an identity carries a handle that is a
\* key of USERS, and resolves to that handle's identity; a session without
\* handle or with an unknown handle resolves to None.
C12_ResolvedHandleKnown ==
    /\ \A c \in Clients :
          Resolve(jar[c], now) # None =>
              /\ jar[c].kind = "signed"
              /\ jar[c].data.user \in {"admin", "employee"}
              /\ Resolve(jar[c], now).role = IdentityRole(jar[c].data.user)
              /\ Resolve(jar[c], now).name = IdentityName(jar[c].data.user)
    /\ \A h \in (Handles \cup {NoneStr}) \ {"admin", "employee"} :
          get_current_user(SessionOf(h)) = None

\* The directory was served to a session that resolves to the employee.
C12_Witness ==
    /\ last.op = "directory"
    /\ last.user = USERS["employee"]
    /\ Resolve(jar[last.client], now) = USERS["employee"]

\* A step that is neither a logout of c's session, nor a successful login
\* on it, nor the caller putting another cookie in its place.
Quiet(c) ==
    /\ ~Logout(c)
    /\ ~RestoreCookie(c)
    /\ ~ForgeCookie(c)
    /\ ~\E username \in Handles, password \in Secrets :
           GoodLogin(username, password) /\ Login(c, username, password)

C14_SessionsIndependent ==
    [][ /\ \A c, d \in Clients :
             c # d => (jar'[c] = jar[c] \/ jar'[d] = jar[d])
        /\ (last' # last /\ last'.op \in {"login", "logout"}) =>
              \A d \in Clients \ {last'.client} :
                 /\ jar'[d] = jar[d]
                 /\ Resolve(jar'[d], now') = Resolve(jar[d], now) ]_vars

\* Two sessions of the admin exist at once, and a failed login on one of
\* them has left both as they were.
C14_Witness ==
    /\ last.op = "login"
    /\ last.client = "c2"
    /\ last.user = USERS["admin"]
    /\ last.response.kind = "template"
    /\ Resolve(jar["c1"], now) = USERS["admin"]
    /\ Resolve(jar["c2"], now) = USERS["admin"]
    /\ held = NoCookie

\* The rows that were ever handed to the table, by seed_data or by a form.
Submitted == {SeedEmployees[i] : i \in 1..Len(SeedEmployees)} \cup NewEmployees

\* r carries an id and every field value of one submitted row.
Whole(r) ==
    /\ DOMAIN r = {"id", "name", "department", "email", "phone", "job_title"}
    /\ r.id \in 1..(Len(SeedEmployees) + Cardinality(NewEmployees))
    /\ \E e \in Submitted :
          /\ r.name = e.name
          /\ r.department = e.department
          /\ r.email = e.email
          /\ r.phone = e.phone
          /\ r.job_title = e.job_title

\* C15: the handlers are coroutines without a suspension point, so an
\* add_record of one browser and a directory scan of another run one after
\* the other in either order; the list of a scan is the search result over
\* the table the scan found (the table before the add or after it), and every
\* row of the list and of the table carries all the values of one submitted row.
C15_NoTornRead ==
    /\ \A i \in 1..Len(store) : Whole(store[i])
    /\ (last.op = "directory" /\ last.response.kind = "template") =>
          LET listed == last.response.context.employees IN
          /\ listed = DirectoryQuery(store, last.response.context.q)
          /\ \A i \in 1..Len(listed) : Whole(listed[i])

\* While one browser holds an admin session, another browser's scan returned
\* a row that was added after startup.
C15_Witness ==
    /\ last.op = "directory"
    /\ last.client = "c2"
    /\ last.user = USERS["employee"]
    /\ last.response.kind = "template"
    /\ last.response.context.q = NoneStr
    /\ Len(last.response.context.employees) = Len(SeedEmployees) + 1
    /\ Resolve(jar["c1"], now) = USERS["admin"]

\* C16: every step keeps every row of the table at its place with its id
\* and its field values; a step that changes the table is a successful
\* add_employee of the admin and appends exactly one row; login, logout,
\* the directory with or without a term, the add-employee form, root and
\* health leave the table as it was.
C16_AppendOnly ==
    [][ /\ Len(store') >= Len(store)
        /\ SubSeq(store', 1, Len(store)) = store
        /\ store' # store =>
              /\ Len(store') = Len(store) + 1
              /\ last'.op = "add_employee"
              /\ last'.user = USERS["admin"]
              /\ last'.exc = "none"
              /\ last'.response = RedirectResponse("/directory")
        /\ (last' # last /\ last'.op \in {"login", "logout", "directory", "login_page",
                                          "add_employee_page", "root", "health"}) =>
              store' = store ]_vars

\* After two rows were added the admin has logged out, and the table holds
\* the seeded rows, unchanged, and the two added ones.
C16_Witness ==
    /\ last.op = "logout"
    /\ last.user = USERS["admin"]
    /\ Len(store) = Len(SeedEmployees) + 2
    /\ \A i \in 1..Len(SeedEmployees) : store[i] = Row(i, SeedEmployees[i])

\* C17: on the table that startup seeded, a login as "employee" with its
\* secret gives a cookie that resolves to the employee, and the directory
\* without q on that session lists the 10 seeded rows, ids 1 to 10.
C17_EmployeeListsSeeded ==
    /\ Len(seed_data(<<>>)) = 10
    /\ store = seed_data(<<>>) =>
          \A c \in Clients :
             LET a == After(c, login(Session(c), store, "employee", UserSecret))
                 b == directory(LoadSession(a.cookie, now), a.rows, NoneStr) IN
             /\ a.response = RedirectResponse("/directory")
             /\ Resolve(a.cookie, now) = USERS["employee"]
             /\ Resolve(a.cookie, now).role = "employee"
             /\ b.response.kind = "template"
             /\ b.response.name = "directory.html"
             /\ Len(b.response.context.employees) = 10
             /\ \A i \in 1..10 :
                   b.response.context.employees[i] = Row(i, SeedEmployees[i])
             /\ b.rows = store

\* The employee has listed the seeded table without q.
C17_Witness ==
    /\ last.op = "directory"
    /\ last.user = USERS["employee"]
    /\ last.response.kind = "template"
    /\ last.response.context.q = NoneStr
    /\ last.response.context.employees = seed_data(<<>>)
    /\ store = seed_data(<<>>)

\* C18: no two rows of the table have the same email or the same id; when
\* two browsers hold admin sessions and both submit a row with one email,
\* whichever add_employee runs first, at most one row with that email is
\* committed and the other request comes back with the error page.
C18_UniqueEmailAndId ==
    /\ \A i, j \in 1..Len(store) :
          (store[i].email = store[j].email \/ store[i].id = store[j].id) => i = j
    /\ \A c, d \in Clients :
          (/\ c # d
           /\ Resolve(jar[c], now) = USERS["admin"]
           /\ Resolve(jar[d], now) = USERS["admin"]) =>
              \A e, f \in NewEmployees :
                 e.email = f.email =>
                    LET first == After(c, add_employee(Session(c), store, e, FALSE))
                        second == add_employee(Session(d), first.rows, f, FALSE) IN
                    /\ Cardinality({i \in 1..Len(second.rows) :
                                       second.rows[i].email = e.email}) = 1
                    /\ second.rows = first.rows
                    /\ second.exc = "IntegrityError"
                    /\ second.response =
                          TemplateResponse("add_employee.html",
                                           [user |-> USERS["admin"], error |-> AddError])

\* Both browsers hold admin sessions; one of them added a row and the other
\* one's add_employee ran into the unique index.
C18_Witness ==
    /\ last.op = "add_employee"
    /\ last.client = "c2"
    /\ last.exc = "IntegrityError"
    /\ Resolve(jar["c1"], now) = USERS["admin"]
    /\ Resolve(jar["c2"], now) = USERS["admin"]
    /\ Len(store) = Len(SeedEmployees) + 1

\* C19: a login with an unknown handle or a wrong secret leaves the table
\* and the session as they were: a session that resolved to an identity
\* resolves to the same identity, and one that resolved to none resolves
\* to none.
C19_FailedLoginFrame ==
    \A c \in Clients :
       \A username \in Handles, password \in Secrets :
          ~GoodLogin(username, password) =>
             LET a == After(c, login(Session(c), store, username, password)) IN
             /\ a.rows = store
             /\ LoadSession(a.cookie, now) = Session(c)
             /\ Resolve(a.cookie, now) = Resolve(jar[c], now)

\* A login failed on a session of the admin, after a row had been added,
\* and the session still resolves to the admin.
C19_Witness ==
    /\ last.op = "login"
    /\ last.user = USERS["admin"]
    /\ last.response.kind = "template"
    /\ Resolve(jar[last.client], now) = USERS["admin"]
    /\ Len(store) = Len(SeedEmployees) + 1

\* C20: a step after which a browser's cookie resolves to an identity that
\* it did not resolve to before the step is a login of that browser with
\* the identity's handle and the handle's secret.
C20_BoundOnlyByLogin ==
    [][ \A c \in Clients :
          (/\ Resolve(jar'[c], now') # None
           /\ Resolve(jar'[c], now') # Resolve(jar[c], now)) =>
              \E username \in {"admin", "employee"} :
                 /\ USERS[username] = Resolve(jar'[c], now')
                 /\ Login(c, username, ProvisionedSecret(username)) ]_vars

====
